---- MODULE Spec2Model ----
(***************************************************************************)
(* redis-cachify-function: a cache-aside decorator over a redis client and *)
(* a redis lock (src/index.js).  The model follows every invocation of the *)
(* decorated function through its callbacks: redis.get, lock, cachedFunc,  *)
(* redis.set, release, and the trailing callback; and invalidate through   *)
(* redis.del.  One action is one callback of the source, run to its end.   *)
(***************************************************************************)
EXTENDS Integers, Sequences, FiniteSets, TLC

\* ---------------------------------------------------------------- bounds
\* number of concurrent invocations of the decorated function
MaxInvocations == 2

Invocations == 1..MaxInvocations

\* ------------------------------------------------------------ JS values
\* A JavaScript value is a record of its type and its literal text.
JSNumber(lit) == [type |-> "number", lit |-> lit]
JSString(lit) == [type |-> "string", lit |-> lit]
JSBoolean(lit) == [type |-> "boolean", lit |-> lit]
Null == [type |-> "null", lit |-> "null"]
Undefined == [type |-> "undefined", lit |-> "undefined"]

\* the results the wrapped computation may call back with
Results == {JSNumber("0"), JSString("a")}

\* the results earlier invocations may have left in the store
Cached == Results \cup {JSNumber("7"), JSString(""), JSBoolean("false"), Null}

\* JavaScript truthiness of a value (the conditions of lines 39 and 66)
Truthy(v) ==
  CASE v.type = "number" -> v.lit # "0"
    [] v.type = "string" -> v.lit # ""
    [] v.type = "boolean" -> v.lit = "true"
    [] OTHER -> FALSE

Quote == "\""

\* JSON.stringify(data) of line 57
JSONstringify(v) ==
  IF v.type = "string" THEN Quote \o v.lit \o Quote ELSE v.lit

\* JSON.parse(cache) of line 32
JSONparse(text) ==
  CASE text = "null" -> Null
    [] text \in {"true", "false"} -> JSBoolean(text)
    [] Head(text) = Quote -> JSString(SubSeq(text, 2, Len(text) - 1))
    [] OTHER -> JSNumber(text)

\* ------------------------------------------------------- redis replies
\* redis answers a GET of a missing key with a null reply
NIL == "(nil)"

\* no error: the null first argument of a node callback
NoErr == "null"
GetError == "ERR get"
FuncError == "ERR cachedFunc"
SetError == "ERR set"
DelError == "ERR del"

\* ------------------------------------------------------------- options
\* options.ttl: seconds a written entry lives
ttl == 30
\* the default of options.lockTTL
LOCK_TTL == 60000
\* options.lockTTL as the caller gave it (0: not given)
optionsLockTTL == 0
lockTTL == IF optionsLockTTL # 0 THEN optionsLockTTL ELSE LOCK_TTL

VARIABLES
  getLock,    \* options.lock, defaulted (line 25)
  store,      \* redis: the string under cacheKey, or NIL
  storeEX,    \* redis: the EX given with the string under cacheKey (0: none)
  lock,       \* redis: the lock under lockKey: its owner (0: free) and PX
  pc,         \* where each invocation of the decorated function stands
  reply,      \* what redis.get answered this invocation: (err, cache)
  cache,      \* getCache's cache as handed to the decorated function
  release,    \* whether this invocation was handed a release function
  computed,   \* what cachedFunc called back with: (err, data)
  result,     \* the arguments of the trailing callback: (err, data)
  log,        \* the calls this invocation made and saw answered, in order
  delPc,      \* where the invalidate call stands: idle, del (sent),
              \* deleted or failed (as redis.del answered)
  delResult   \* the error argument of invalidate's callback

vars ==
  <<getLock, store, storeEX, lock, pc, reply, cache, release, computed,
    result, log, delPc, delResult>>

NoLock == [owner |-> 0, px |-> 0]

Args(err, d) == [err |-> err, data |-> d]

Reply(err, c) == [err |-> err, cache |-> c]

Init ==
  /\ getLock \in BOOLEAN
  /\ store \in {NIL} \cup {JSONstringify(v) : v \in Cached}
  /\ storeEX = IF store = NIL THEN 0 ELSE ttl
  /\ lock = NoLock
  /\ pc = [i \in Invocations |-> "idle"]
  /\ reply = [i \in Invocations |-> Reply(NoErr, NIL)]
  /\ cache = [i \in Invocations |-> Undefined]
  /\ release = [i \in Invocations |-> FALSE]
  /\ computed = [i \in Invocations |-> Args(NoErr, Undefined)]
  /\ result = [i \in Invocations |-> Args(NoErr, Undefined)]
  /\ log = [i \in Invocations |-> <<>>]
  /\ delPc = "idle"
  /\ delResult = NoErr

\* ------------------------------------------------- the source's pieces
\* lines 31-33: the reply of redis.get, parsed when it is truthy
getCacheParse(rep) ==
  IF rep # NIL /\ rep # "" THEN JSONparse(rep) ELSE Null

\* line 39: the second waterfall task asks for the lock
\* variant: options.lock not looked at
needLockAlways(c) == ~Truthy(c)
\* variant: the negation of getLock dropped
needLockNegationDropped(c) == ~(Truthy(c) \/ getLock)
needLock(c) == ~(Truthy(c) \/ ~getLock)

\* line 66: the decorated function answers without computing
\* variant: the test of the cache negated
answersFromCacheNegated(err, c) == err # NoErr \/ ~Truthy(c)
\* variant: the error of getCache not looked at
answersFromCacheErrIgnored(err, c) == Truthy(c)
answersFromCache(err, c) == err # NoErr \/ Truthy(c)

\* lines 48-50: getCache's final callback releases on an error
getCacheFinal(err, rel) ==
  IF err # NoErr /\ rel THEN <<"release">> ELSE <<>>

\* lines 70-76: finish releases, then calls the trailing callback
\* variant: release not called
finishNoRelease(rel, err, d) ==
  [calls |-> <<"callback">>, result |-> Args(err, d)]
\* variant: the trailing callback called ahead of release
finishCallbackFirst(rel, err, d) ==
  [calls |-> IF rel THEN <<"callback", "release">> ELSE <<"callback">>,
   result |-> Args(err, d)]
finish(rel, err, d) ==
  [calls |-> IF rel THEN <<"release", "callback">> ELSE <<"callback">>,
   result |-> Args(err, d)]

\* line 57: what setCache sends to redis
\* variant: the data sent without JSON.stringify
setCacheUnserialized(d) == [value |-> d.lit, ex |-> ttl]
setCache(d) == [value |-> JSONstringify(d), ex |-> ttl]

Has(calls, c) == \E k \in 1..Len(calls) : calls[k] = c

\* the lock lk after the calls of one handler: release deletes the lock
\* of the handle it belongs to, and does nothing once that lock is gone
\* variant: release deletes the lock whoever holds it
lockAfterAnyOwner(i, calls, lk) ==
  IF Has(calls, "release") THEN NoLock ELSE lk
lockAfter(i, calls, lk) ==
  IF Has(calls, "release") /\ lk.owner = i THEN NoLock ELSE lk

\* lines 47-53, 65-68, 88: getCache's final callback, then the callback
\* the decorated function gave getCache; lk is the lock as it stands
\* variant: the return of line 67 missing
decoratedNoReturn(i, err, c, rel, lk) ==
  LET pre == getCacheFinal(err, rel) IN
    /\ pc' = [pc EXCEPT ![i] = "cachedFunc"]
    /\ result' = IF answersFromCache(err, c)
                 THEN [result EXCEPT ![i] = Args(err, c)] ELSE result
    /\ log' = [log EXCEPT ![i] =
                 @ \o pre \o (IF answersFromCache(err, c)
                              THEN <<"callback">> ELSE <<>>)
                   \o <<"cachedFunc">>]
    /\ lock' = lockAfter(i, pre, lk)
decorated(i, err, c, rel, lk) ==
  LET pre == getCacheFinal(err, rel) IN
  IF answersFromCache(err, c)
  THEN /\ pc' = [pc EXCEPT ![i] = "done"]
       /\ result' = [result EXCEPT ![i] = Args(err, c)]
       /\ log' = [log EXCEPT ![i] = @ \o pre \o <<"callback">>]
       /\ lock' = lockAfter(i, pre, lk)
  ELSE /\ pc' = [pc EXCEPT ![i] = "cachedFunc"]
       /\ result' = result
       /\ log' = [log EXCEPT ![i] = @ \o pre \o <<"cachedFunc">>]
       /\ lock' = lockAfter(i, pre, lk)

\* lines 78-85: the callback the decorated function gives cachedFunc
\* variant: release called ahead of setCache
wrappedCallbackReleaseEarly(i, err, d) ==
  IF err # NoErr
  THEN LET f == finish(release[i], err, Undefined) IN
         /\ pc' = [pc EXCEPT ![i] = "done"]
         /\ result' = [result EXCEPT ![i] = f.result]
         /\ log' = [log EXCEPT ![i] = @ \o f.calls]
         /\ lock' = lockAfter(i, f.calls, lock)
  ELSE LET early == IF release[i] THEN <<"release">> ELSE <<>> IN
         /\ pc' = [pc EXCEPT ![i] = "set"]
         /\ log' = [log EXCEPT ![i] = @ \o early \o <<"set">>]
         /\ lock' = lockAfter(i, early, lock)
         /\ UNCHANGED result
\* variant: the error of cachedFunc not looked at
wrappedCallbackErrIgnored(i, err, d) ==
  /\ pc' = [pc EXCEPT ![i] = "set"]
  /\ log' = [log EXCEPT ![i] = @ \o <<"set">>]
  /\ UNCHANGED <<result, lock>>
wrappedCallback(i, err, d) ==
  IF err # NoErr
  THEN LET f == finish(release[i], err, Undefined) IN
         /\ pc' = [pc EXCEPT ![i] = "done"]
         /\ result' = [result EXCEPT ![i] = f.result]
         /\ log' = [log EXCEPT ![i] = @ \o f.calls]
         /\ lock' = lockAfter(i, f.calls, lock)
  ELSE /\ pc' = [pc EXCEPT ![i] = "set"]
       /\ log' = [log EXCEPT ![i] = @ \o <<"set">>]
       /\ UNCHANGED <<result, lock>>

\* lines 83-85: the callback the decorated function gives setCache;
\* the log notes "stored" when redis.set answered without error
setCallback(i, err) ==
  LET f == finish(release[i], err, computed[i].data)
      seen == IF err = NoErr THEN <<"stored">> ELSE <<>> IN
    /\ pc' = [pc EXCEPT ![i] = "done"]
    /\ result' = [result EXCEPT ![i] = f.result]
    /\ log' = [log EXCEPT ![i] = @ \o seen \o f.calls]
    /\ lock' = lockAfter(i, f.calls, lock)

\* ------------------------------------------------------------- actions
\* lines 61-65, 28-30: the decorated function is called; redis.get is sent
Call(i) ==
  /\ pc[i] = "idle"
  /\ pc' = [pc EXCEPT ![i] = "get"]
  /\ log' = [log EXCEPT ![i] = @ \o <<"get">>]
  /\ UNCHANGED <<getLock, store, storeEX, lock, reply, cache, release,
                 computed, result, delPc, delResult>>

\* lines 30-46, 47-53, 65-68, 88: redis.get answers with what is stored
GetReply(i) ==
  /\ pc[i] = "get"
  /\ LET c == getCacheParse(store) IN
       /\ reply' = [reply EXCEPT ![i] = Reply(NoErr, store)]
       /\ cache' = [cache EXCEPT ![i] = c]
       /\ IF needLock(c)
          THEN /\ pc' = [pc EXCEPT ![i] = "lock"]
               /\ log' = [log EXCEPT ![i] = @ \o <<"lock">>]
               /\ UNCHANGED <<result, lock>>
          ELSE decorated(i, NoErr, c, FALSE, lock)
  /\ UNCHANGED <<getLock, store, storeEX, release, computed, delPc,
                 delResult>>

\* lines 30-36, 47-53, 65-68: redis.get answers with an error
GetFail(i) ==
  /\ pc[i] = "get"
  /\ reply' = [reply EXCEPT ![i] = Reply(GetError, NIL)]
  /\ cache' = [cache EXCEPT ![i] = Undefined]
  /\ decorated(i, GetError, Undefined, FALSE, lock)
  /\ UNCHANGED <<getLock, store, storeEX, release, computed, delPc,
                 delResult>>

\* lines 43-45, 47-53, 65-68, 88: the lock is free and is granted
Locked(i) ==
  /\ pc[i] = "lock"
  /\ lock.owner = 0
  /\ release' = [release EXCEPT ![i] = TRUE]
  /\ decorated(i, NoErr, cache[i], TRUE, [owner |-> i, px |-> lockTTL])
  /\ UNCHANGED <<getLock, store, storeEX, reply, cache, computed, delPc,
                 delResult>>

\* lines 78-85, 56-58: cachedFunc calls back with a result
Computed(i, d) ==
  /\ pc[i] = "cachedFunc"
  /\ computed' = [computed EXCEPT ![i] = Args(NoErr, d)]
  /\ wrappedCallback(i, NoErr, d)
  /\ UNCHANGED <<getLock, store, storeEX, reply, cache, release, delPc,
                 delResult>>

\* lines 78-81, 70-76: cachedFunc calls back with an error
ComputeFail(i) ==
  /\ pc[i] = "cachedFunc"
  /\ computed' = [computed EXCEPT ![i] = Args(FuncError, Undefined)]
  /\ wrappedCallback(i, FuncError, Undefined)
  /\ UNCHANGED <<getLock, store, storeEX, reply, cache, release, delPc,
                 delResult>>

\* lines 57, 83-85, 70-76: redis.set stored the string and answers
SetReply(i) ==
  /\ pc[i] = "set"
  /\ LET w == setCache(computed[i].data) IN
       /\ store' = w.value
       /\ storeEX' = w.ex
  /\ setCallback(i, NoErr)
  /\ UNCHANGED <<getLock, reply, cache, release, computed, delPc,
                 delResult>>

\* lines 57, 83-85, 70-76: redis.set answers with an error, nothing stored
SetFail(i) ==
  /\ pc[i] = "set"
  /\ setCallback(i, SetError)
  /\ UNCHANGED <<getLock, store, storeEX, reply, cache, release, computed,
                 delPc, delResult>>

\* line 57: the EX of the entry elapses and redis drops it
StoreExpire ==
  /\ store # NIL
  /\ storeEX # 0
  /\ store' = NIL
  /\ storeEX' = 0
  /\ UNCHANGED <<getLock, lock, pc, reply, cache, release, computed, result,
                 log, delPc, delResult>>

\* lines 24, 43: lockTTL elapses and redis drops the lock of its holder
LockExpire ==
  /\ lock.owner # 0
  /\ lock.px # 0
  /\ lock' = NoLock
  /\ UNCHANGED <<getLock, store, storeEX, pc, reply, cache, release,
                 computed, result, log, delPc, delResult>>

\* lines 101-103: invalidate hands its callback to redis.del as it is
delCallbackErrDropped(err) == NoErr
delCallback(err) == err

\* lines 100-103: invalidate is called; redis.del is sent
Invalidate ==
  /\ delPc # "del"
  /\ delPc' = "del"
  /\ delResult' = NoErr
  /\ UNCHANGED <<getLock, store, storeEX, lock, pc, reply, cache, release,
                 computed, result, log>>

\* line 103: redis.del removed the key and answers
\* variant: nothing removed, the key given is not the cache key
DelReplyOtherKey ==
  /\ delPc = "del"
  /\ delPc' = "deleted"
  /\ delResult' = delCallback(NoErr)
  /\ UNCHANGED <<getLock, store, storeEX, lock, pc, reply, cache, release,
                 computed, result, log>>
\* variant: the lock key removed along with the cache key
DelReplyLockKey ==
  /\ delPc = "del"
  /\ store' = NIL
  /\ storeEX' = 0
  /\ lock' = NoLock
  /\ delPc' = "deleted"
  /\ delResult' = delCallback(NoErr)
  /\ UNCHANGED <<getLock, pc, reply, cache, release, computed, result, log>>
DelReply ==
  /\ delPc = "del"
  /\ store' = NIL
  /\ storeEX' = 0
  /\ delPc' = "deleted"
  /\ delResult' = delCallback(NoErr)
  /\ UNCHANGED <<getLock, lock, pc, reply, cache, release, computed, result,
                 log>>

\* line 103: redis.del answers with an error, the key is untouched
DelFail ==
  /\ delPc = "del"
  /\ delPc' = "failed"
  /\ delResult' = delCallback(DelError)
  /\ UNCHANGED <<getLock, store, storeEX, lock, pc, reply, cache, release,
                 computed, result, log>>

Next ==
  \/ \E i \in Invocations : Call(i)
  \/ \E i \in Invocations : GetReply(i)
  \/ \E i \in Invocations : GetFail(i)
  \/ \E i \in Invocations : Locked(i)
  \/ \E i \in Invocations, d \in Results : Computed(i, d)
  \/ \E i \in Invocations : ComputeFail(i)
  \/ \E i \in Invocations : SetReply(i)
  \/ \E i \in Invocations : SetFail(i)
  \/ StoreExpire
  \/ LockExpire
  \/ Invalidate
  \/ DelReply
  \/ DelFail

Spec == Init /\ [][Next]_vars

\* redis answers every get and set, cachedFunc calls back, and a free
\* lock is granted to some invocation that waits for it
Fairness ==
  /\ \A i \in Invocations :
       /\ WF_vars(GetReply(i) \/ GetFail(i))
       /\ WF_vars((\E d \in Results : Computed(i, d)) \/ ComputeFail(i))
       /\ WF_vars(SetReply(i) \/ SetFail(i))
  /\ WF_vars(\E i \in Invocations : Locked(i))

\* the invocations alone, with locking enabled: invalidate, which no
\* invocation waits for, is left out
InitLocking == Init /\ getLock

NextLocking ==
  \/ \E i \in Invocations : Call(i)
  \/ \E i \in Invocations : GetReply(i)
  \/ \E i \in Invocations : GetFail(i)
  \/ \E i \in Invocations : Locked(i)
  \/ \E i \in Invocations, d \in Results : Computed(i, d)
  \/ \E i \in Invocations : ComputeFail(i)
  \/ \E i \in Invocations : SetReply(i)
  \/ \E i \in Invocations : SetFail(i)
  \/ StoreExpire
  \/ LockExpire

FairSpec == InitLocking /\ [][NextLocking]_vars /\ Fairness

\* ---------------------------------------------------------- properties
Count(calls, c) == Cardinality({k \in 1..Len(calls) : calls[k] = c})

\* every c among the calls is preceded by an a
Before(calls, a, c) ==
  \A k \in 1..Len(calls) : calls[k] = c => \E j \in 1..(k - 1) : calls[j] = a

\* the lookup of invocation i was answered, without error, with an entry
FoundEntry(i) == reply[i].err = NoErr /\ reply[i].cache # NIL

\* the lookup of invocation i was answered, without error, with no entry
FoundNothing(i) ==
  pc[i] \notin {"idle", "get"} /\ reply[i].err = NoErr /\ reply[i].cache = NIL

\* invocations whose computation was started and has not called back
InFlight == {i \in Invocations : pc[i] = "cachedFunc"}

\* invocations that were granted the lock and have not released it
Holders == {i \in Invocations : release[i] /\ ~Has(log[i], "release")}

\* C1: an invocation whose lookup finds any stored value V, falsy ones
\* included, never invokes cachedFunc and completes with (null, V).
CacheHitShortCircuits ==
  \A i \in Invocations :
    FoundEntry(i) =>
      /\ ~Has(log[i], "cachedFunc")
      /\ pc[i] = "done"
      /\ result[i] = Args(NoErr, JSONparse(reply[i].cache))

\* C2: with locking enabled and a lock that has at most one holder at a
\* time, at most one computation is in flight.
MutualExclusion ==
  (getLock /\ Cardinality(Holders) <= 1) => Cardinality(InFlight) <= 1

\* C2 witness: one invocation computes under the lock, another waits for it
MutualExclusionWitness ==
  \E i, j \in Invocations :
    /\ getLock
    /\ pc[i] = "cachedFunc" /\ lock.owner = i /\ Holders = {i}
    /\ pc[j] = "lock" /\ FoundNothing(j)

\* C3: with locking enabled, an invocation that found the key empty does
\* not invoke cachedFunc once the entry has been written.
SingleRecomputation ==
  [][\A i \in Invocations :
       (getLock /\ pc[i] # "cachedFunc" /\ pc'[i] = "cachedFunc"
          /\ FoundNothing(i)')
         => store = NIL]_vars

\* C4: when redis.set fails after a successful computation, the trailing
\* callback gets (writeError, undefined).
WriteFailureDiscardsResult ==
  \A i \in Invocations :
    (pc[i] = "done" /\ result[i].err = SetError)
      => result[i].data = Undefined

\* C5: an invocation that found no entry invokes cachedFunc exactly once;
\* when the computation and the write succeed, the result is in the store
\* with EX ttl before the trailing callback, which gets (null, result).
CacheMissComputesAndStores ==
  [][\A i \in Invocations :
       FoundNothing(i)' =>
         /\ Count(log'[i], "cachedFunc") <= 1
         /\ pc'[i] \in {"cachedFunc", "set", "done"}
              => Count(log'[i], "cachedFunc") = 1
         /\ (pc[i] = "set" /\ pc'[i] = "done" /\ result'[i].err = NoErr)
              => /\ store' = JSONstringify(computed[i].data)
                 /\ getCacheParse(store') = computed[i].data
                 /\ storeEX' = ttl
                 /\ result'[i] = Args(NoErr, computed[i].data)
                 /\ Before(log'[i], "stored", "callback")]_vars

\* C5 witness: a miss computed "a", stored it and called back with it
CacheMissWitness ==
  \E i \in Invocations :
    /\ FoundNothing(i) /\ pc[i] = "done"
    /\ result[i] = Args(NoErr, JSString("a"))
    /\ store = "\"a\"" /\ storeEX = ttl
    /\ Count(log[i], "cachedFunc") = 1

\* C6: when redis.get fails, the invocation reports that error and does
\* nothing else: no lock, no cachedFunc, no redis.set.
StoreReadErrorAborts ==
  \A i \in Invocations :
    reply[i].err # NoErr =>
      /\ pc[i] = "done"
      /\ result[i].err = reply[i].err
      /\ log[i] = <<"get", "callback">>
      /\ ~release[i]

\* C6 witness: an invocation whose lookup failed
StoreReadErrorWitness ==
  \E i \in Invocations : reply[i].err = GetError /\ pc[i] = "done"

\* C7: when cachedFunc calls back with an error, the invocation releases
\* its lock if it has one, reports (error, undefined), sends no redis.set
\* and leaves the store as it is.
ComputationErrorNoWrite ==
  [][\A i \in Invocations :
       computed'[i].err # NoErr =>
         /\ pc'[i] = "done"
         /\ result'[i] = Args(computed'[i].err, Undefined)
         /\ ~Has(log'[i], "set") /\ ~Has(log'[i], "stored")
         /\ release'[i] =>
              (Count(log'[i], "release") = 1 /\ lock'.owner # i)
         /\ computed[i].err = NoErr => (store' = store /\ storeEX' = storeEX)]_vars

\* C7 witness: a failed computation under the lock
ComputationErrorWitness ==
  \E i \in Invocations :
    computed[i].err = FuncError /\ release[i] /\ pc[i] = "done"

\* C8: the trailing callback is called at most once, and exactly once by
\* the time the invocation has run through.
SingleCompletion ==
  \A i \in Invocations :
    /\ Count(log[i], "callback") <= 1
    /\ pc[i] = "done" <=> Count(log[i], "callback") = 1
    /\ Has(log[i], "callback") => log[i][Len(log[i])] = "callback"

\* C8 witness: every invocation has completed, on different paths
SingleCompletionWitness ==
  /\ \A i \in Invocations : pc[i] = "done"
  /\ \E i, j \in Invocations :
       /\ Has(log[i], "stored")
       /\ ~Has(log[j], "cachedFunc")

\* C9: an invocation that was granted the lock calls release exactly once
\* on every exit path, before its trailing callback; once it has
\* completed it no longer holds the lock.
ReleaseExactlyOnce ==
  \A i \in Invocations :
    /\ Count(log[i], "release") <= 1
    /\ Has(log[i], "release") => release[i]
    /\ (release[i] /\ Has(log[i], "callback")) =>
         /\ Count(log[i], "release") = 1
         /\ Before(log[i], "release", "callback")
         /\ lock.owner # i

\* C9 witness: a lock holder that completed on the write error path
ReleaseExactlyOnceWitness ==
  \E i \in Invocations :
    /\ release[i] /\ pc[i] = "done"
    /\ result[i].err = SetError

\* C10: an invocation asks for the lock only if its lookup found no entry
\* and locking is enabled; one that found an entry never acquires or
\* releases the lock.
LockOnlyOnMiss ==
  \A i \in Invocations :
    (Has(log[i], "lock") \/ release[i] \/ Has(log[i], "release"))
      => (getLock /\ FoundNothing(i))

\* C11: with options.lock false no invocation asks for, acquires or
\* releases the lock (two computations may then be in flight together).
LockBypassWhenDisabled ==
  ~getLock =>
    /\ lock = NoLock
    /\ \A i \in Invocations :
         /\ ~release[i]
         /\ ~Has(log[i], "lock") /\ ~Has(log[i], "release")
         /\ pc[i] # "lock"

\* C11 witness: without locking, two invocations that found the key empty
\* have their computations in flight together
LockBypassWitness ==
  \E i, j \in Invocations :
    /\ ~getLock /\ i # j
    /\ FoundNothing(i) /\ FoundNothing(j)
    /\ {i, j} \subseteq InFlight

\* C12: when invalidate completes without error the entry is gone, and a
\* lookup is answered with what the store holds: a lookup that follows
\* at once is answered nil.
InvalidateClears ==
  [][/\ (delPc = "del" /\ delPc' # "del" /\ delResult' = NoErr)
          => (store' = NIL /\ getCacheParse(store') = Null)
     /\ \A i \in Invocations :
          (pc[i] = "get" /\ pc'[i] # "get" /\ reply'[i].err = NoErr)
            => reply'[i].cache = store]_vars

\* C12 witness: the entry one invocation found is gone after invalidate
\* and another invocation's lookup is answered nil
InvalidateClearsWitness ==
  \E i, j \in Invocations :
    /\ delPc = "deleted" /\ delResult = NoErr /\ store = NIL
    /\ FoundEntry(i) /\ Truthy(cache[i])
    /\ FoundNothing(j)

\* C13: invalidate calls back with the error of redis.del if there is one
\* and with no error otherwise, also when there is no entry; invalidating
\* where nothing is stored changes nothing.
InvalidateCompletion ==
  [][/\ delPc' = "failed" => delResult' = DelError
     /\ delPc' = "deleted" => delResult' = NoErr
     /\ (delPc = "del" /\ delPc' = "deleted" /\ store = NIL)
          => /\ delResult' = NoErr
             /\ <<store, storeEX, lock, pc, reply, cache, release, computed,
                  result, log>>' =
                <<store, storeEX, lock, pc, reply, cache, release, computed,
                  result, log>>]_vars

\* C13 witness: invalidate of a key without entry was answered without
\* error while no invocation had been called
InvalidateNoEntryWitness ==
  delPc = "deleted" /\ delResult = NoErr /\ store = NIL /\ storeEX = 0
    /\ \A i \in Invocations : pc[i] = "idle"

\* C14: a write that fails on an absent key leaves the key absent, a
\* lookup of it is a miss, and an invocation whose lookup found nothing
\* has invoked cachedFunc by the time it completes.
FailedWriteLeavesNoEntry ==
  [][\A i \in Invocations :
       /\ (pc[i] = "set" /\ pc'[i] = "done" /\ result'[i].err = SetError
             /\ store = NIL)
            => /\ store' = NIL /\ storeEX' = 0
               /\ ~answersFromCache(NoErr, getCacheParse(store'))
       /\ (FoundNothing(i)' /\ pc'[i] = "done")
            => Has(log'[i], "cachedFunc")]_vars

\* C14 witness: after a failed write on the absent key another invocation
\* found nothing and computes
FailedWriteWitness ==
  \E i, j \in Invocations :
    /\ i # j /\ store = NIL
    /\ pc[i] = "done" /\ result[i].err = SetError /\ reply[i].cache = NIL
    /\ FoundNothing(j) /\ pc[j] = "cachedFunc"

\* C15: an invocation that computes under a lock does not call release
\* while its computation or its write is pending; its write is answered
\* before it releases, and it releases before the trailing callback.
WriteBeforeReleaseBeforeCompletion ==
  \A i \in Invocations :
    release[i] =>
      /\ pc[i] \in {"cachedFunc", "set"}
           => (~Has(log[i], "release") /\ ~Has(log[i], "callback"))
      /\ Has(log[i], "set") => Before(log[i], "set", "release")
      /\ Has(log[i], "stored") =>
           /\ Has(log[i], "release") /\ Has(log[i], "callback")
           /\ Before(log[i], "stored", "release")
           /\ Before(log[i], "release", "callback")

\* C15 witness: a lock holder stored its result and completed
WriteBeforeReleaseWitness ==
  \E i \in Invocations :
    release[i] /\ pc[i] = "done" /\ Has(log[i], "stored")
      /\ log[i] =
           <<"get", "lock", "cachedFunc", "set", "stored", "release",
             "callback">>

\* C16: the store only ever changes to nil or to the serialized result of
\* a computation that succeeded, and no invocation sends redis.set after
\* a lookup error, after a lookup that found an entry, or after an error
\* of the computation.
OnlySuccessfulResultsCached ==
  [][/\ store' # store =>
          \/ store' = NIL
          \/ \E i \in Invocations :
               /\ pc[i] = "set" /\ computed[i].err = NoErr
               /\ store' = JSONstringify(computed[i].data)
     /\ \A i \in Invocations :
          Has(log'[i], "set") =>
            /\ reply'[i].err = NoErr
            /\ ~FoundEntry(i)'
            /\ computed'[i].err = NoErr]_vars

\* C17: invalidate changes nothing but the entry under the key; the lock,
\* its holder, the waiters and every invocation stay as they are.
InvalidateLeavesLock ==
  [][delPc' # delPc =>
       <<getLock, lock, pc, reply, cache, release, computed, result, log>>' =
       <<getLock, lock, pc, reply, cache, release, computed, result, log>>]_vars

\* C17 witness: after invalidate removed the entry, the write of an
\* invocation made it present again, while the lock is held
InvalidateOverwrittenWitness ==
  \E i, j \in Invocations :
    /\ delPc = "deleted" /\ delResult = NoErr
    /\ pc[i] = "done" /\ Has(log[i], "stored")
    /\ store = JSONstringify(computed[i].data)
    /\ lock.owner = j /\ pc[j] = "cachedFunc"

\* C18: an invocation sends at most one redis.set, and only after its
\* computation succeeded; it acquires and releases the lock at most once,
\* and only if its lookup found no entry and locking is enabled.
BoundedSideEffects ==
  \A i \in Invocations :
    /\ Count(log[i], "set") <= 1
    /\ Has(log[i], "set") =>
         (Has(log[i], "cachedFunc") /\ computed[i].err = NoErr)
    /\ Count(log[i], "lock") <= 1
    /\ Count(log[i], "release") <= 1
    /\ (Has(log[i], "lock") \/ Has(log[i], "release"))
         => (getLock /\ reply[i].err = NoErr /\ reply[i].cache = NIL)

\* invocations whose lock was dropped by redis before they released it
Stale(i) == release[i] /\ ~Has(log[i], "release") /\ lock.owner # i

\* C19: with locking enabled, when redis and cachedFunc answer and a free
\* lock is granted to some waiter, every invocation that was called calls
\* its trailing callback and a held lock becomes free.
EventualCompletion ==
  /\ \A i \in Invocations :
       (getLock /\ pc[i] # "idle") ~> (pc[i] = "done" /\ lock.owner # i)
  /\ (getLock /\ lock.owner # 0) ~> (lock.owner = 0)

\* C19 witness: two invocations waited for the lock, both were granted it
\* and completed, and the lock is free
EventualCompletionWitness ==
  \E i, j \in Invocations :
    /\ i # j /\ getLock /\ lock = NoLock
    /\ FoundNothing(i) /\ FoundNothing(j)
    /\ release[i] /\ release[j]
    /\ pc[i] = "done" /\ pc[j] = "done"

\* C20: when lockTTL elapses under a holder, the holder goes on as it
\* was; once another invocation has the lock, the first still stores its
\* result, calls back once and leaves the other's lock alone, and both
\* complete.
LockExpiryDoesNotCancel ==
  /\ [][\A i \in Invocations :
          /\ (lock.owner = i /\ lock' = NoLock /\ log'[i] = log[i])
               => <<store, storeEX, pc, reply, cache, release, computed,
                    result, log>>' =
                  <<store, storeEX, pc, reply, cache, release, computed,
                    result, log>>
          /\ (Stale(i) /\ pc[i] # "done" /\ pc'[i] = "done")
               => /\ Count(log'[i], "callback") = 1
                  /\ lock' = lock
                  /\ result'[i].err = NoErr
                       => /\ store' = JSONstringify(computed[i].data)
                          /\ result'[i].data = computed[i].data]_vars
  /\ (\E i, j \in Invocations : Stale(i) /\ lock.owner = j)
       ~> (\A i \in Invocations : pc[i] \in {"idle", "done"})

\* C20 witness: the lock of an invocation whose write is pending was
\* dropped and another invocation computes under the lock
LockExpiryWitness ==
  \E i, j \in Invocations :
    /\ Stale(i) /\ pc[i] = "set"
    /\ lock.owner = j /\ pc[j] = "cachedFunc" /\ FoundNothing(j)

====
